---- MODULE Spec2Model ----
(***************************************************************************)
(* Model of the NMEA 0183 -> CAN bridge scripts of robolibs/isobus:        *)
(*   scripts/send_can.py            NMEA 2000 bridge, Fast Packet framer   *)
(*   scripts/send_can_j1939.py      SAE J1939 bridge                       *)
(*   scripts/serial_filter_bridge.py  serial filter dropping PHTG lines    *)
(*                                                                         *)
(* Numbers.  TLC integers are 32 bit, so                                   *)
(*  - a Python float is modelled by an exact rational [n |-> , d |-> ];    *)
(*    the rounding error of IEEE doubles is not modelled;                  *)
(*  - an integer wider than 31 bits is a "wide" value [hi |-> , lo |-> ]   *)
(*    standing for hi * 10^7 + lo with 0 <= lo < 10^7, together with a     *)
(*    sign where the code's value is signed;                               *)
(*  - bytes objects are sequences of numbers in 0..255.                    *)
(***************************************************************************)
EXTENDS Integers, Sequences, FiniteSets, TLC

VARIABLES
    id_args,    \* CAN identifier harness: [pgn, sa, priority] of the call
    id_pc,      \* "ready" | "nmea2000" | "j1939": which builder has returned
    id_out,     \* the identifier returned
    enc_args,   \* encoder harness: [lat, lon, cog, sog, sid] (rationals, sid a byte)
    enc_pc,     \* "ready" | the name of the encoder that was called
    enc_out,    \* [err, data]: what the encoder call gave
    sid,              \* send_can.main: sequence id linking the PGNs of a fix
    fast_packet_seq,  \* send_can.main: Fast Packet sequence counter
    msg_count,        \* send_can.main: fixes accepted so far
    n2k_pc,           \* "running" | "exited" (KeyboardInterrupt) | "idle"
    n2k_last,         \* what the latest pass of the loop did: outcome, payloads
    n2k_bus,          \* frames the latest pass handed to bus.send, in order
    n2k_rx,           \* the line waiting in the serial port; <<>> when none
    n2k_fp_ok,        \* Fast Packet transmissions completed so far (history)
    fp_args,    \* Fast Packet harness: arguments of the send_fast_packet call
    fp_pc,      \* "ready" | "returned" | "raised"
    fp_bus,     \* frames handed to bus.send by the call, in order
    fp_err,     \* "none" | "ValueError" | "CanError": exception leaving the call
    j1939_pc,   \* send_can_j1939.main: "running" | "exited" | "idle"
    j1939_rx,   \* the line waiting in the serial port; <<>> when none
    j1939_last, \* what the latest pass of the loop did
    j1939_bus,  \* frames the latest pass handed to bus.send, in order
    filt_pc,    \* serial_filter_bridge.main: "running" | "exited" | "idle"
    filt_rx,    \* the line waiting in the input port; <<>> when none
    filt_in,    \* lines ser_in.readline() has returned, in order
    filt_out,   \* byte strings ser_out.write() has taken, in order
    filt_fault, \* TRUE once a port call has raised
    rx_pc,        \* Fast Packet receiver: "running" | "idle"
    rx_msgs,      \* per sender identifier: the [len, seq] of the message it sends
    rx_wire,      \* per sender identifier: its frames not yet received
    rx_sessions,  \* the FastPacketSession table, keyed by CAN identifier
    rx_before,    \* the table as it was before the latest step
    rx_last,      \* identifier the latest step was about (0 at the start)
    rx_delivered, \* payloads delivered upward, in order: [can_id, payload]
    rx_dropped,   \* frames discarded so far
    rx_lost       \* identifiers whose session the timeout discarded

idVars == <<id_args, id_pc, id_out>>

encVars == <<enc_args, enc_pc, enc_out>>

fpVars == <<fp_args, fp_pc, fp_bus, fp_err>>

n2kVars == <<sid, fast_packet_seq, msg_count, n2k_pc, n2k_last, n2k_bus, n2k_rx,
            n2k_fp_ok>>

filtVars == <<filt_pc, filt_rx, filt_in, filt_out, filt_fault>>

j1939Vars == <<j1939_pc, j1939_rx, j1939_last, j1939_bus>>

rxVars == <<rx_pc, rx_msgs, rx_wire, rx_sessions, rx_before, rx_last, rx_delivered,
           rx_dropped, rx_lost>>

\* what a step of one component leaves alone
idOthers == <<encVars, fpVars, n2kVars, filtVars, j1939Vars, rxVars>>

encOthers == <<idVars, fpVars, n2kVars, filtVars, j1939Vars, rxVars>>

fpOthers == <<idVars, encVars, n2kVars, filtVars, j1939Vars, rxVars>>

n2kOthers == <<idVars, encVars, fpVars, filtVars, j1939Vars, rxVars>>

filtOthers == <<idVars, encVars, fpVars, n2kVars, j1939Vars, rxVars>>

j1939Others == <<idVars, encVars, fpVars, n2kVars, filtVars, rxVars>>

rxOthers == <<idVars, encVars, fpVars, n2kVars, filtVars, j1939Vars>>

vars == <<id_args, id_pc, id_out, enc_args, enc_pc, enc_out,
          fp_args, fp_pc, fp_bus, fp_err,
          sid, fast_packet_seq, msg_count, n2k_pc, n2k_last, n2k_bus, n2k_rx,
          n2k_fp_ok,
          filt_pc, filt_rx, filt_in, filt_out, filt_fault,
          j1939_pc, j1939_rx, j1939_last, j1939_bus,
          rx_pc, rx_msgs, rx_wire, rx_sessions, rx_before, rx_last, rx_delivered,
          rx_dropped, rx_lost>>

(***************************************************************************)
(* Bit operations on naturals (Python &, |, <<, >>).                       *)
(***************************************************************************)
RECURSIVE BitAnd(_, _)
BitAnd(a, b) ==
    IF a = 0 \/ b = 0 THEN 0
    ELSE (IF a % 2 = 1 /\ b % 2 = 1 THEN 1 ELSE 0) + 2 * BitAnd(a \div 2, b \div 2)

RECURSIVE BitOr(_, _)
BitOr(a, b) ==
    IF a = 0 THEN b
    ELSE IF b = 0 THEN a
    ELSE (IF a % 2 = 1 \/ b % 2 = 1 THEN 1 ELSE 0) + 2 * BitOr(a \div 2, b \div 2)

RECURSIVE Pow2(_)
Pow2(k) == IF k = 0 THEN 1 ELSE 2 * Pow2(k - 1)

RECURSIVE Pow10(_)
Pow10(k) == IF k = 0 THEN 1 ELSE 10 * Pow10(k - 1)

Shl(a, k) == a * Pow2(k)

Shr(a, k) == a \div Pow2(k)

Min(a, b) == IF a < b THEN a ELSE b

Max(a, b) == IF a > b THEN a ELSE b

(***************************************************************************)
(* bytes helpers.                                                          *)
(***************************************************************************)
Byte == 0..255

\* data[lo:hi] of Python (0-based, hi exclusive, clipped to the length)
Slice(data, lo, hi) ==
    SubSeq(data, Min(lo, Len(data)) + 1, Min(hi, Len(data)))

\* bytes([v] * k)
Fill(v, k) == [i \in 1..k |-> v]

\* bytes([...]) raises ValueError unless every element is in range(256)
BytesOk(xs) == \A i \in 1..Len(xs) : xs[i] \in Byte

(***************************************************************************)
(* Configuration constants of the scripts.                                 *)
(***************************************************************************)
PGN_POSITION_RAPID == 129025
PGN_COG_SOG_RAPID == 129026
PGN_GNSS_POSITION == 129029
PGN_VEHICLE_POSITION == 65267
PGN_VEHICLE_DIRECTION_SPEED == 65256
J1939_PRIORITY == 6
SOURCE_ADDRESS == 128

(***************************************************************************)
(* CAN identifier builders.                                                *)
(***************************************************************************)
\* the data page bit shifted to the reserved bit 25
nmea2000_build_can_id_dp25(pgn, sa, priority) ==
    LET pf == BitAnd(Shr(pgn, 8), 255)
        ps == BitAnd(pgn, 255)
        dp == BitAnd(Shr(pgn, 16), 1)
    IN  BitOr(BitOr(BitOr(BitOr(Shl(BitAnd(priority, 7), 26),
                                Shl(BitAnd(dp, 1), 25)),
                          Shl(pf, 16)),
                    Shl(ps, 8)),
              sa)

\* nmea2000_build_can_id(pgn, sa, priority) of send_can.py; the local da is
\* computed by the code and never used
nmea2000_build_can_id(pgn, sa, priority) ==
    LET pf == BitAnd(Shr(pgn, 8), 255)
        ps == BitAnd(pgn, 255)
        dp == BitAnd(Shr(pgn, 16), 1)
        da == IF pf < 240 THEN ps ELSE 255
    IN  BitOr(BitOr(BitOr(BitOr(Shl(BitAnd(priority, 7), 26),
                                Shl(BitAnd(dp, 1), 24)),
                          Shl(pf, 16)),
                    Shl(ps, 8)),
              sa)

\* j1939_build_can_id(pgn, sa, priority) of send_can_j1939.py
j1939_build_can_id(pgn, sa, priority) ==
    LET pf == BitAnd(Shr(pgn, 8), 255)
        ps == BitAnd(pgn, 255)
        dp == 0
    IN  BitOr(BitOr(BitOr(BitOr(Shl(BitAnd(priority, 7), 26),
                                Shl(dp, 24)),
                          Shl(pf, 16)),
                    Shl(ps, 8)),
              BitAnd(sa, 255))

\* the identifiers main() of send_can.py builds before its loop
can_pos_rapid == nmea2000_build_can_id(PGN_POSITION_RAPID, SOURCE_ADDRESS, 2)

can_cog_sog == nmea2000_build_can_id(PGN_COG_SOG_RAPID, SOURCE_ADDRESS, 2)

can_gnss_pos == nmea2000_build_can_id(PGN_GNSS_POSITION, SOURCE_ADDRESS, 3)

\* the identifiers main() of send_can_j1939.py builds before its loop
can_position == j1939_build_can_id(PGN_VEHICLE_POSITION, SOURCE_ADDRESS, J1939_PRIORITY)

can_direction ==
    j1939_build_can_id(PGN_VEHICLE_DIRECTION_SPEED, SOURCE_ADDRESS, J1939_PRIORITY)

(***************************************************************************)
(* Numbers of the payload encoders.                                        *)
(* A float is the exact rational [n, d] (d > 0).  int(x) truncates toward  *)
(* zero.  A wide integer [neg, hi, lo] stands for +-(hi * 10^7 + lo).      *)
(***************************************************************************)
Abs(x) == IF x < 0 THEN 0 - x ELSE x

RECURSIVE GCD(_, _)
GCD(a, b) == IF b = 0 THEN a ELSE GCD(b, a % b)

Rat(n, d) == [n |-> n, d |-> d]

\* float("inf"): the one float modelled that is no rational
Infinity == [n |-> 1, d |-> 0]

IsFinite(x) == x.d # 0

\* int(x * k / d) for integers x, k >= 0, d > 0; the fraction k / d is reduced
\* first and the product split, so that no intermediate value leaves 31 bits
MulDivTrunc(x, k, d) ==
    LET g  == GCD(k, d)
        kk == k \div g
        dd == d \div g
        m  == (Abs(x) \div dd) * kk + ((Abs(x) % dd) * kk) \div dd
    IN  IF x < 0 THEN 0 - m ELSE m

\* max(0, min(hi, v))
Clamp(v, hi) == Max(0, Min(hi, v))

\* int(x * 10^7) for a rational x, as a wide integer
Wide7 == 10000000

ScaleE7(x) ==
    LET g == GCD(Wide7, x.d)
    IN  [neg |-> x.n < 0,
         hi  |-> Abs(x.n) \div x.d,
         lo  |-> ((Abs(x.n) % x.d) * (Wide7 \div g)) \div (x.d \div g)]

WideLeq(a, b) == a.hi < b.hi \/ (a.hi = b.hi /\ a.lo <= b.lo)

WideZero(a) == a.hi = 0 /\ a.lo = 0

\* 2^31 - 1, 2^31 and 2^32 - 1 as wide magnitudes
INT32_MAX == [hi |-> 214, lo |-> 7483647]

INT32_MIN_MAG == [hi |-> 214, lo |-> 7483648]

UINT32_MAX == [hi |-> 429, lo |-> 4967295]

\* the range struct.pack("<i") accepts
FitsInt32(w) ==
    IF w.neg /\ ~WideZero(w) THEN WideLeq(w, INT32_MIN_MAG) ELSE WideLeq(w, INT32_MAX)

\* little-endian bytes of a 16-bit value
PackU16(v) == <<v % 256, v \div 256>>

\* the two 16-bit halves <<low, high>> of a wide magnitude below 2^32
\* (10^7 = 152 * 65536 + 38528)
WideHalves(w) ==
    LET low == w.hi * 38528 + w.lo
    IN  <<low % 65536, w.hi * 152 + low \div 65536>>

\* little-endian bytes of an unsigned 32-bit wide value: struct.pack("<I")
PackU32(w) ==
    LET h == WideHalves(w)
    IN  PackU16(h[1]) \o PackU16(h[2])

\* little-endian two's complement bytes of a signed 32-bit wide value:
\* struct.pack("<i")
PackI32(w) ==
    LET h == WideHalves(w)
    IN  IF ~w.neg \/ WideZero(w) THEN PackU16(h[1]) \o PackU16(h[2])
        ELSE IF h[1] = 0 THEN PackU16(0) \o PackU16((65536 - h[2]) % 65536)
        ELSE PackU16(65536 - h[1]) \o PackU16(65535 - h[2])

\* what an encoder call gives: the bytes returned, or the exception raised
Returned(data) == [err |-> "none", data |-> data]

Raised(e) == [err |-> e, data |-> <<>>]

(***************************************************************************)
(* NMEA 2000 payload encoders (send_can.py).                               *)
(***************************************************************************)
\* encode_position_rapid(lat_deg, lon_deg): struct.pack("<ii") raises
\* struct.error when a value is outside the signed 32-bit range
encode_position_rapid(lat_deg, lon_deg) ==
    LET lat_i == ScaleE7(lat_deg)
        lon_i == ScaleE7(lon_deg)
    IN  IF FitsInt32(lat_i) /\ FitsInt32(lon_i)
        THEN Returned(PackI32(lat_i) \o PackI32(lon_i))
        ELSE Raised("struct.error")

\* cog_scaled = int(math.radians(cog_deg) / 0.0001), with pi taken as 355/113:
\* cog_deg * (355 / 113) / 180 * 10000 = cog_deg * 177500 / 1017
CogScaled(cog_deg) == MulDivTrunc(cog_deg.n, 177500, 1017 * cog_deg.d)

\* sog_scaled = int(sog_ms / 0.01)
SogScaled(sog_ms) == MulDivTrunc(sog_ms.n, 100, sog_ms.d)

\* encode_cog_sog_rapid(cog_deg, sog_ms, sid); the parameter sid is sid_arg here
encode_cog_sog_rapid(cog_deg, sog_ms, sid_arg) ==
    LET cog_reference == 0
        ref_byte   == BitOr(BitAnd(cog_reference, 3), 252)
        cog_scaled == Clamp(CogScaled(cog_deg), 65535)
        sog_scaled == Clamp(SogScaled(sog_ms), 65535)
    IN  IF ~IsFinite(cog_deg) \/ ~IsFinite(sog_ms) THEN Raised("OverflowError")
        ELSE IF sid_arg \in Byte
        THEN Returned(<<sid_arg, ref_byte>> \o PackU16(cog_scaled) \o PackU16(sog_scaled)
                      \o <<255, 255>>)
        ELSE Raised("struct.error")

(***************************************************************************)
(* SAE J1939 payload encoders (send_can_j1939.py).                         *)
(***************************************************************************)
\* int((deg + 210.0) / 1e-7), clamped to 0 .. 0xFFFFFFFF
VehiclePositionRaw(deg) ==
    LET raw == ScaleE7(Rat(deg.n + 210 * deg.d, deg.d))
    IN  IF raw.neg THEN [neg |-> FALSE, hi |-> 0, lo |-> 0]
        ELSE IF WideLeq(raw, UINT32_MAX) THEN raw
        ELSE [neg |-> FALSE, hi |-> UINT32_MAX.hi, lo |-> UINT32_MAX.lo]

\* encode_vehicle_position(lat_deg, lon_deg)
encode_vehicle_position(lat_deg, lon_deg) ==
    Returned(PackU32(VehiclePositionRaw(lat_deg)) \o PackU32(VehiclePositionRaw(lon_deg)))

\* bearing_raw = int(cog_deg * 128)
BearingRaw(cog_deg) == MulDivTrunc(cog_deg.n, 128, cog_deg.d)

\* speed_raw = int(sog_ms * 3.6 * 256)
SpeedRaw(sog_ms) == MulDivTrunc(sog_ms.n, 4608, 5 * sog_ms.d)

\* encode_vehicle_direction_speed(cog_deg, sog_ms)
encode_vehicle_direction_speed(cog_deg, sog_ms) ==
    LET bearing_raw  == Clamp(BearingRaw(cog_deg), 65535)
        speed_raw    == Clamp(SpeedRaw(sog_ms), 65535)
        pitch_raw    == 65535
        altitude_raw == 65535
    IN  IF ~IsFinite(cog_deg) \/ ~IsFinite(sog_ms) THEN Raised("OverflowError")
        ELSE Returned(PackU16(bearing_raw) \o PackU16(speed_raw) \o PackU16(pitch_raw)
                      \o PackU16(altitude_raw))

(***************************************************************************)
(* 64-bit fields.  A big number is its little-endian bytes (BigLen of      *)
(* them, more than the 8 of an int64, so that an overflow shows).          *)
(***************************************************************************)
BigLen == 12

\* the bytes of a natural below 2^31
BigFromNat(v) ==
    [i \in 1..BigLen |-> IF i <= 4 THEN (v \div Pow2(8 * (i - 1))) % 256 ELSE 0]

\* big * k for a small k: schoolbook multiplication, carry upward
RECURSIVE BigMulFrom(_, _, _, _)
BigMulFrom(big, k, i, carry) ==
    IF i > BigLen THEN <<>>
    ELSE <<(big[i] * k + carry) % 256>>
         \o BigMulFrom(big, k, i + 1, (big[i] * k + carry) \div 256)

BigMul(big, k) == BigMulFrom(big, k, 1, 0)

\* big * 10^e, six decimal digits at a time
RECURSIVE BigMulPow10(_, _)
BigMulPow10(big, e) ==
    IF e > 6 THEN BigMulPow10(BigMul(big, 1000000), e - 6) ELSE BigMul(big, Pow10(e))

\* big \div d for a small d: long division from the top byte down
RECURSIVE BigDivFrom(_, _, _, _)
BigDivFrom(big, d, i, rem) ==
    IF i = 0 THEN <<>>
    ELSE BigDivFrom(big, d, i - 1, (rem * 256 + big[i]) % d)
         \o <<(rem * 256 + big[i]) \div d>>

BigDiv(big, d) == BigDivFrom(big, d, BigLen, 0)

\* int(x * 10^e) in magnitude
BigScale(x, e) == BigDiv(BigMulPow10(BigFromNat(Abs(x.n)), e), x.d)

BigIsZero(big) == \A i \in 1..BigLen : big[i] = 0

\* the range struct.pack("<q") accepts: -2^63 .. 2^63 - 1
FitsInt64(neg, big) ==
    /\ \A i \in 9..BigLen : big[i] = 0
    /\ \/ big[8] < 128
       \/ neg /\ big[8] = 128 /\ \A i \in 1..7 : big[i] = 0

\* 256^8 - big, byte by byte: invert and add one
RECURSIVE TwosFrom(_, _, _)
TwosFrom(big, i, carry) ==
    IF i > 8 THEN <<>>
    ELSE <<(255 - big[i] + carry) % 256>>
         \o TwosFrom(big, i + 1, (255 - big[i] + carry) \div 256)

\* struct.pack("<q")
PackI64(neg, big) ==
    IF neg /\ ~BigIsZero(big) THEN TwosFrom(big, 1, 1) ELSE SubSeq(big, 1, 8)

\* struct.pack("<I") of a value below 2^31
PackU32Int(v) == PackU16(v % 65536) \o PackU16(v \div 65536)

(***************************************************************************)
(* encode_gnss_position (send_can.py).  now = datetime.now(timezone.utc)   *)
(* is an input: [days, time_scaled] are days_since_1970 and                *)
(* int(seconds_since_midnight * 10000) of that instant.                    *)
(***************************************************************************)
\* sid = 0: the function has no sid parameter and always writes 0
GnssSid(loop_sid) == 0

\* encode_gnss_position(lat_deg, lon_deg, altitude_m = 0.0); loop_sid is the sid
\* of the caller's loop, which the function does not receive
encode_gnss_position(lat_deg, lon_deg, now, loop_sid) ==
    LET gnss_sid        == GnssSid(loop_sid)
        days_since_1970 == Clamp(now.days, 65535)
        lat_scaled      == BigScale(lat_deg, 16)
        lon_scaled      == BigScale(lon_deg, 16)
        alt_scaled      == BigFromNat(0)
        gnss_type       == 0
        method          == 1
        integrity       == 1
        reserved        == 63
        byte_gnss_method        == BitOr(BitAnd(gnss_type, 15), Shl(BitAnd(method, 15), 4))
        byte_integrity_reserved == BitOr(BitAnd(integrity, 3), Shl(BitAnd(reserved, 63), 2))
        num_svs      == 8
        hdop         == 100
        pdop         == 200
        ref_stations == 1
    IN  IF FitsInt64(lat_deg.n < 0, lat_scaled) /\ FitsInt64(lon_deg.n < 0, lon_scaled)
        THEN Returned(<<gnss_sid>> \o PackU16(days_since_1970) \o PackU32Int(now.time_scaled)
                      \o PackI64(lat_deg.n < 0, lat_scaled)
                      \o PackI64(lon_deg.n < 0, lon_scaled)
                      \o PackI64(FALSE, alt_scaled)
                      \o <<byte_gnss_method, byte_integrity_reserved, num_svs>>
                      \o PackU16(hdop) \o PackU16(pdop)
                      \o <<0, 0, 0, 0>> \o <<ref_stations>>
                      \o PackU16(65535) \o PackU16(65535))
        ELSE Raised("struct.error")

(***************************************************************************)
(* Text.  A str is a sequence of one-character strings; BadByte stands for *)
(* a byte that decode(errors="ignore") drops.                              *)
(***************************************************************************)
BadByte == "\\xff"

\* the whitespace str.strip() removes, as far as it occurs in the lines modelled
Whitespace == {" ", "\t", "\r", "\n"}

\* bytes.decode(errors="ignore")
Decode(bs) == SelectSeq(bs, LAMBDA b : b # BadByte)

\* str.lstrip(): from the first character that is not whitespace
LStrip(t) ==
    LET keep == {i \in 1..Len(t) : t[i] \notin Whitespace}
    IN  IF keep = {} THEN <<>>
        ELSE SubSeq(t, CHOOSE i \in keep : \A j \in keep : i <= j, Len(t))

\* str.rstrip(): up to the last character that is not whitespace
RStrip(t) ==
    LET keep == {i \in 1..Len(t) : t[i] \notin Whitespace}
    IN  IF keep = {} THEN <<>>
        ELSE SubSeq(t, 1, CHOOSE i \in keep : \A j \in keep : i >= j)

\* str.strip()
Strip(t) == RStrip(LStrip(t))

\* str.startswith(prefix)
StartsWith(t, prefix) ==
    Len(t) >= Len(prefix) /\ SubSeq(t, 1, Len(prefix)) = prefix

\* str.endswith(suffix)
EndsWith(t, suffix) ==
    Len(t) >= Len(suffix) /\ SubSeq(t, Len(t) - Len(suffix) + 1, Len(t)) = suffix

\* token in text
Contains(t, token) ==
    \E i \in 1..(Len(t) - Len(token) + 1) : SubSeq(t, i, i + Len(token) - 1) = token

\* str.split(sep) for a one-character separator: part k lies between the
\* (k-1)-th and the k-th occurrence of sep
Split(t, sep) ==
    LET seps   == {i \in 1..Len(t) : t[i] = sep}
        Nth(k) == CHOOSE i \in seps : Cardinality({j \in seps : j < i}) = k - 1
        count  == Cardinality(seps) + 1
    IN  [k \in 1..count |->
            SubSeq(t, IF k = 1 THEN 1 ELSE Nth(k - 1) + 1,
                      IF k = count THEN Len(t) ELSE Nth(k) - 1)]

DigitValue ==
    [c \in {"0", "1", "2", "3", "4", "5", "6", "7", "8", "9"} |->
        CASE c = "0" -> 0 [] c = "1" -> 1 [] c = "2" -> 2 [] c = "3" -> 3 [] c = "4" -> 4
          [] c = "5" -> 5 [] c = "6" -> 6 [] c = "7" -> 7 [] c = "8" -> 8 [] c = "9" -> 9]

RECURSIVE DigitsToNat(_, _)
DigitsToNat(ds, acc) ==
    IF ds = <<>> THEN acc ELSE DigitsToNat(Tail(ds), 10 * acc + DigitValue[Head(ds)])

Without(t, c) == SelectSeq(t, LAMBDA x : x # c)

\* float(text) for plain decimal text: an optional "-", digits, at most one ".";
\* "inf" gives infinity; anything else raises ValueError (ok = FALSE).
\* Exponents, "nan" and inner blanks, which float() also reads, do not occur in
\* the lines modelled.
ParseFloat(t) ==
    IF t = <<"i", "n", "f">> THEN [ok |-> TRUE, value |-> Infinity] ELSE
    LET neg    == t # <<>> /\ Head(t) = "-"
        body   == IF neg THEN Tail(t) ELSE t
        dots   == {i \in 1..Len(body) : body[i] = "."}
        digits == Without(body, ".")
        ok     == /\ Cardinality(dots) <= 1
                  /\ digits # <<>>
                  /\ \A i \in 1..Len(digits) : digits[i] \in DOMAIN DigitValue
        e      == IF dots = {} THEN 0 ELSE Len(body) - (CHOOSE i \in dots : TRUE)
        m      == IF ok THEN DigitsToNat(digits, 0) ELSE 0
    IN  [ok |-> ok, value |-> Rat(IF neg THEN 0 - m ELSE m, Pow10(e))]

(***************************************************************************)
(* parse_gprmc (send_can.py; send_can_j1939.py holds the same function).   *)
(***************************************************************************)
NoFix == [ok |-> FALSE, lat |-> Rat(0, 1), lon |-> Rat(0, 1),
          sog_knots |-> Rat(0, 1), cog_deg |-> Rat(0, 1)]

\* ddmm.mmmm -> degrees: deg = int(val // 100); deg + (val - deg * 100) / 60.0
DegMinToDeg(val) ==
    LET deg == val.n \div (100 * val.d)
    IN  Rat(deg * 60 * val.d + (val.n - deg * 100 * val.d), 60 * val.d)

Negate(x) == Rat(0 - x.n, x.d)

\* float(raw) if raw else 0.0
FloatOrZero(raw) == IF raw = <<>> THEN [ok |-> TRUE, value |-> Rat(0, 1)] ELSE ParseFloat(raw)

\* a parser that does not look at the status field
parse_gprmc_AnyStatus(nmea_line) ==
    LET parts == Split(nmea_line, ",")
    IN  IF ~EndsWith(parts[1], <<"R", "M", "C">>) THEN NoFix
        ELSE IF Len(parts) < 3 THEN NoFix
        ELSE IF Len(parts) < 9 THEN NoFix
        ELSE IF parts[4] = <<>> \/ parts[6] = <<>> THEN NoFix
        ELSE LET lat_val == ParseFloat(parts[4])
                 lon_val == ParseFloat(parts[6])
                 sog     == FloatOrZero(parts[8])
                 cog     == FloatOrZero(parts[9])
             IN  IF ~lat_val.ok \/ ~lon_val.ok \/ ~sog.ok \/ ~cog.ok THEN NoFix
                 \* int(inf // 100) raises ValueError
                 ELSE IF ~IsFinite(lat_val.value) \/ ~IsFinite(lon_val.value) THEN NoFix
                 ELSE [ok        |-> TRUE,
                       lat       |-> IF parts[5] = <<"S">>
                                     THEN Negate(DegMinToDeg(lat_val.value))
                                     ELSE DegMinToDeg(lat_val.value),
                       lon       |-> IF parts[7] = <<"W">>
                                     THEN Negate(DegMinToDeg(lon_val.value))
                                     ELSE DegMinToDeg(lon_val.value),
                       sog_knots |-> sog.value,
                       cog_deg   |-> cog.value]

\* parse_gprmc(nmea_line): every exception inside (IndexError on a short line,
\* ValueError of float()) gives (None, None, None, None), here ok = FALSE
parse_gprmc(nmea_line) ==
    LET parts == Split(nmea_line, ",")
    IN  IF ~EndsWith(parts[1], <<"R", "M", "C">>) THEN NoFix
        ELSE IF Len(parts) < 3 THEN NoFix
        ELSE IF parts[3] # <<"A">> THEN NoFix
        ELSE IF Len(parts) < 9 THEN NoFix
        ELSE IF parts[4] = <<>> \/ parts[6] = <<>> THEN NoFix
        ELSE LET lat_val == ParseFloat(parts[4])
                 lon_val == ParseFloat(parts[6])
                 sog     == FloatOrZero(parts[8])
                 cog     == FloatOrZero(parts[9])
             IN  IF ~lat_val.ok \/ ~lon_val.ok \/ ~sog.ok \/ ~cog.ok THEN NoFix
                 \* int(inf // 100) raises ValueError
                 ELSE IF ~IsFinite(lat_val.value) \/ ~IsFinite(lon_val.value) THEN NoFix
                 ELSE [ok        |-> TRUE,
                       lat       |-> IF parts[5] = <<"S">>
                                     THEN Negate(DegMinToDeg(lat_val.value))
                                     ELSE DegMinToDeg(lat_val.value),
                       lon       |-> IF parts[7] = <<"W">>
                                     THEN Negate(DegMinToDeg(lon_val.value))
                                     ELSE DegMinToDeg(lon_val.value),
                       sog_knots |-> sog.value,
                       cog_deg   |-> cog.value]

(***************************************************************************)
(* Lines the serial port delivers (ser.readline()); <<>> is a timeout.     *)
(***************************************************************************)
\* a valid fix, with an undecodable byte and the line ending
LineRmcNorthEast ==
    <<BadByte, "$", "G", "P", "R", "M", "C", ",", "1", ",", "A", ",", "5", "1",
      "5", "9", ".", "2", "7", "4", "0", ",", "N", ",", "0", "0", "5", "3", "9",
      ".", "7", "8", "0", "0", ",", "E", ",", "1", ".", "2", ",", "4", "5", ".",
      "0", "\r", "\n">>

\* a valid fix in the south-west with empty speed and course
LineRmcSouthWest ==
    <<"$", "G", "N", "R", "M", "C", ",", "1", ",", "A", ",", "3", "3", "0", "0",
      ".", "0", "0", "0", "1", ",", "S", ",", "1", "5", "1", "0", "0", ".", "0",
      "0", "0", "2", ",", "W", ",", ",", "\r", "\n">>

\* a valid fix with a speed and a course beyond the 16-bit fields
LineRmcFast ==
    <<"$", "G", "P", "R", "M", "C", ",", "1", ",", "A", ",", "0", "0", "0", "0",
      ".", "0", "0", "0", "0", ",", "N", ",", "0", "0", "0", "0", "0", ".", "0",
      "0", "0", "0", ",", "E", ",", "1", "3", "0", "0", ".", "0", ",", "4", "0",
      "0", ".", "0", "\r", "\n">>

\* status A but a latitude of 215 degrees
LineRmcLat215 ==
    <<"$", "G", "P", "R", "M", "C", ",", "1", ",", "A", ",", "2", "1", "5", "0",
      "0", ".", "0", "0", "0", "0", ",", "N", ",", "0", "0", "5", "3", "9", ".",
      "7", "8", "0", "0", ",", "E", ",", "1", ".", "2", ",", "4", "5", ".", "0",
      "\r", "\n">>

\* a valid fix whose course reads "inf"
LineRmcInfCourse ==
    <<"$", "G", "P", "R", "M", "C", ",", "1", ",", "A", ",", "5", "1", "5", "9",
      ".", "2", "7", "4", "0", ",", "N", ",", "0", "0", "5", "3", "9", ".", "7",
      "8", "0", "0", ",", "E", ",", "1", ".", "2", ",", "i", "n", "f", "\r", "\n">>

\* an infinite latitude
LineRmcInfLat ==
    <<"$", "G", "P", "R", "M", "C", ",", "1", ",", "A", ",", "i", "n", "f", ",", "N",
      ",", "0", "0", "5", "3", "9", ".", "7", "8", "0", "0", ",", "E", ",", "1",
      ".", "2", ",", "4", "5", ".", "0", "\r", "\n">>

\* status V
LineRmcVoid ==
    <<"$", "G", "P", "R", "M", "C", ",", "1", ",", "V", ",", "5", "1", "5", "9",
      ".", "2", "7", "4", "0", ",", "N", ",", "0", "0", "5", "3", "9", ".", "7",
      "8", "0", "0", ",", "E", ",", "1", ".", "2", ",", "4", "5", ".", "0", "\r",
      "\n">>

\* not an RMC sentence
LineGga ==
    <<"$", "G", "P", "G", "G", "A", ",", "1", ",", "A", ",", "5", "1", "5", "9",
      ".", "2", "7", "4", "0", ",", "N", ",", "0", "0", "5", "3", "9", ".", "7",
      "8", "0", "0", ",", "E", ",", "1", ".", "2", ",", "4", "5", ".", "0", "\r",
      "\n">>

\* no leading $
LineNoDollar ==
    <<"G", "P", "R", "M", "C", ",", "1", ",", "A", ",", "5", "1", "5", "9", ".",
      "2", "7", "4", "0", ",", "N", ",", "0", "0", "5", "3", "9", ".", "7", "8",
      "0", "0", ",", "E", ",", "1", ".", "2", ",", "4", "5", ".", "0", "\r",
      "\n">>

\* empty latitude
LineRmcNoLat ==
    <<"$", "G", "P", "R", "M", "C", ",", "1", ",", "A", ",", ",", "N", ",", "0",
      "0", "5", "3", "9", ".", "7", "8", "0", "0", ",", "E", ",", "1", ".", "2",
      ",", "4", "5", ".", "0", "\r", "\n">>

\* a latitude float() rejects
LineRmcBadLat ==
    <<"$", "G", "P", "R", "M", "C", ",", "1", ",", "A", ",", "5", "1", "x", "9",
      ".", "2", "7", "4", "0", ",", "N", ",", "0", "0", "5", "3", "9", ".", "7",
      "8", "0", "0", ",", "E", ",", "1", ".", "2", ",", "4", "5", ".", "0", "\r",
      "\n">>

\* too few fields
LineRmcShort ==
    <<"$", "G", "P", "R", "M", "C", ",", "1", "\r", "\n">>

\* only the line ending
LineBlank ==
    <<"\r", "\n">>

SerialLines ==
    {<<>>, LineRmcNorthEast, LineRmcSouthWest, LineRmcFast, LineRmcLat215,
     LineRmcInfCourse, LineRmcInfLat, LineRmcVoid, LineGga, LineNoDollar, LineRmcNoLat,
     LineRmcBadLat, LineRmcShort, LineBlank}

(***************************************************************************)
(* NMEA 2000 Fast Packet framer: send_fast_packet (send_can.py).           *)
(* A frame is what bus.send receives: the arbitration id and the data.     *)
(* failAt numbers the bus.send call (0 = frame 0) on which the CAN driver  *)
(* raises; NoFail means the driver accepts every frame.                    *)
(***************************************************************************)
NoFail == 0 - 1

Message(can_id, data) == [arbitration_id |-> can_id, data |-> data]

\* frame_counter = sequence_counter & 0x1F
FPFrameCounter(sequence_counter) == BitAnd(sequence_counter, 31)

\* frame0 = bytes([frame_counter, total_len]) + data[0:6]
FPFrame0(frame_counter, data) == <<frame_counter, Len(data)>> \o Slice(data, 0, 6)

\* a header that leaves the sequence counter out
FPHeader_NoCounter(frame_counter, frame_num) == Shl(frame_num, 5)

\* a header whose frame index is cut to its three bits
FPHeader_Wrapped(frame_counter, frame_num) ==
    BitOr(frame_counter, Shl(BitAnd(frame_num, 7), 5))

\* header = frame_counter | (frame_num << 5)
FPHeader(frame_counter, frame_num) == BitOr(frame_counter, Shl(frame_num, 5))

\* a chunk one byte short of the stride of the loop
FPChunk_Six(data, offset) == Slice(data, offset, offset + 6)

\* chunk = data[offset:offset+7]
FPChunk(data, offset) == Slice(data, offset, offset + 7)

\* the last frame left unpadded
FPFrameData_NoPad(header, chunk) == <<header>> \o chunk

\* frame_data = bytes([header]) + chunk + bytes([0xFF] * (7 - len(chunk)))
FPFrameData(header, chunk) == <<header>> \o chunk \o Fill(255, 7 - Len(chunk))

\* the while loop of send_fast_packet; sent = the frames handed to the bus so far
RECURSIVE FPLoop(_, _, _, _, _, _, _)
FPLoop(can_id, data, frame_counter, offset, frame_num, sent, failAt) ==
    IF ~(offset < Len(data)) THEN [frames |-> sent, err |-> "none"]
    ELSE LET header == FPHeader(frame_counter, frame_num)
             chunk  == FPChunk(data, offset)
         IN  IF ~BytesOk(<<header>>) THEN [frames |-> sent, err |-> "ValueError"]
             ELSE IF failAt = Len(sent) THEN [frames |-> sent, err |-> "CanError"]
             ELSE FPLoop(can_id, data, frame_counter, offset + 7, frame_num + 1,
                         Append(sent, Message(can_id, FPFrameData(header, chunk))),
                         failAt)

\* send_fast_packet(bus, can_id, data, sequence_counter): the frames it hands to
\* the bus and the exception that leaves it ("none" when it returns)
SendFastPacket(can_id, data, sequence_counter, failAt) ==
    LET frame_counter == FPFrameCounter(sequence_counter)
    IN  IF ~BytesOk(<<frame_counter, Len(data)>>)
        THEN [frames |-> <<>>, err |-> "ValueError"]
        ELSE IF failAt = 0 THEN [frames |-> <<>>, err |-> "CanError"]
        ELSE FPLoop(can_id, data, frame_counter, 6, 1,
                    <<Message(can_id, FPFrame0(frame_counter, data))>>, failAt)

(***************************************************************************)
(* Fast Packet harness: one call of send_fast_packet on a bounded input.   *)
(***************************************************************************)
MaxLen == 58
MaxSeq == 33
MaxFailAt == 2

\* a length the one-byte length field cannot hold
FPLens == (0..MaxLen) \cup {256}

\* payload byte i (0-based) is (a * i + b) mod 256
FPFamilies == {[a |-> 1, b |-> 0], [a |-> 0, b |-> 255], [a |-> 7, b |-> 250]}

Payload(len, fam) == [i \in 1..len |-> (fam.a * (i - 1) + fam.b) % 256]

FPData == Payload(fp_args.len, fp_args.fam)

FPInit ==
    /\ fp_args \in [len : FPLens, fam : FPFamilies, seq : 0..MaxSeq,
                    failAt : {NoFail} \cup (0..MaxFailAt)]
    /\ fp_pc = "ready"
    /\ fp_bus = <<>>
    /\ fp_err = "none"

FPCall ==
    /\ fp_pc = "ready"
    /\ LET r == SendFastPacket(can_gnss_pos, FPData, fp_args.seq, fp_args.failAt)
       IN  /\ fp_bus' = fp_bus \o r.frames
           /\ fp_err' = r.err
           /\ fp_pc' = IF r.err = "none" THEN "returned" ELSE "raised"
    /\ UNCHANGED <<fp_args, fpOthers>>

FPIdle ==
    /\ fp_args = [len |-> 0, fam |-> [a |-> 0, b |-> 0], seq |-> 0, failAt |-> NoFail]
    /\ fp_pc = "idle"
    /\ fp_bus = <<>>
    /\ fp_err = "none"

FPNext == FPCall

(***************************************************************************)
(* CAN identifier harness: one call of a builder on a bounded input.       *)
(***************************************************************************)
\* sample PGNs: PDU1 and PDU2, both data pages, the PGNs the scripts send
IdPgns == {0, 255, 256, 59904, 61183, 61184, 61440, 65256, 65267, 65535,
           65536, 126720, 129025, 129026, 129029, 130816, 131071}

IdAddresses == {0, 1, 127, 128, 254, 255}

IdInit ==
    /\ id_args \in [pgn : IdPgns, sa : IdAddresses, priority : 0..7]
    /\ id_pc = "ready"
    /\ id_out = 0

IdIdle ==
    /\ id_args = [pgn |-> 0, sa |-> 0, priority |-> 0]
    /\ id_pc = "idle"
    /\ id_out = 0

IdCallNmea2000 ==
    /\ id_pc = "ready"
    /\ id_out' = nmea2000_build_can_id(id_args.pgn, id_args.sa, id_args.priority)
    /\ id_pc' = "nmea2000"
    /\ UNCHANGED <<id_args, idOthers>>

IdCallJ1939 ==
    /\ id_pc = "ready"
    /\ id_out' = j1939_build_can_id(id_args.pgn, id_args.sa, id_args.priority)
    /\ id_pc' = "j1939"
    /\ UNCHANGED <<id_args, idOthers>>

IdNext == IdCallNmea2000 \/ IdCallJ1939

(***************************************************************************)
(* Encoder harness: one call of a payload encoder on a bounded input.      *)
(* Latitudes and longitudes are counted in 1/600000 degree (1e-4 arc       *)
(* minute, the resolution of an RMC sentence), courses in 0.1 degree,      *)
(* speeds in 0.00001 m/s.                                                  *)
(***************************************************************************)
MaxSweep == 6

EncSweep == 0..MaxSweep

EncLats == {Rat(n, 600000) : n \in EncSweep \cup
              {31192740, 0 - 31192740, 54000000, 0 - 54000000,
               128849018, 128849019, 0 - 128849019, 129000000, 131698038, 150000000}}

EncLons == {Rat(n, 600000) : n \in {3397800, 0 - 108000000, 129000000}}

EncCogs == {Rat(n, 10) : n \in EncSweep \cup
              {0 - 50, 450, 1234, 3600, 3754, 3755, 4000, 5119, 5120}}

EncSogs == {Rat(n, 100000) : n \in {k * 100 : k \in EncSweep} \cup
              {0 - 100000, 61733, 1999999, 7111000, 7111200, 65534000, 65535000,
               70000000}}

EncSids == {0, 252}

EncInit ==
    /\ enc_args \in [lat : EncLats, lon : EncLons, cog : EncCogs, sog : EncSogs,
                     sid : EncSids]
    /\ enc_pc = "ready"
    /\ enc_out = Returned(<<>>)

EncIdle ==
    /\ enc_args = [lat |-> Rat(0, 1), lon |-> Rat(0, 1), cog |-> Rat(0, 1),
                   sog |-> Rat(0, 1), sid |-> 0]
    /\ enc_pc = "idle"
    /\ enc_out = Returned(<<>>)

EncCallPositionRapid ==
    /\ enc_pc = "ready"
    /\ enc_out' = encode_position_rapid(enc_args.lat, enc_args.lon)
    /\ enc_pc' = "encode_position_rapid"
    /\ UNCHANGED <<enc_args, encOthers>>

EncCallCogSogRapid ==
    /\ enc_pc = "ready"
    /\ enc_out' = encode_cog_sog_rapid(enc_args.cog, enc_args.sog, enc_args.sid)
    /\ enc_pc' = "encode_cog_sog_rapid"
    /\ UNCHANGED <<enc_args, encOthers>>

EncCallVehiclePosition ==
    /\ enc_pc = "ready"
    /\ enc_out' = encode_vehicle_position(enc_args.lat, enc_args.lon)
    /\ enc_pc' = "encode_vehicle_position"
    /\ UNCHANGED <<enc_args, encOthers>>

EncCallVehicleDirectionSpeed ==
    /\ enc_pc = "ready"
    /\ enc_out' = encode_vehicle_direction_speed(enc_args.cog, enc_args.sog)
    /\ enc_pc' = "encode_vehicle_direction_speed"
    /\ UNCHANGED <<enc_args, encOthers>>

EncNext ==
    \/ EncCallPositionRapid
    \/ EncCallCogSogRapid
    \/ EncCallVehiclePosition
    \/ EncCallVehicleDirectionSpeed

(***************************************************************************)
(* main() of send_can.py: the NMEA 0183 -> NMEA 2000 bridge loop.          *)
(* One pass of "while True" is one step.  The environment puts lines into  *)
(* the serial port and supplies the clock and which bus.send call (if any) *)
(* raises: loopFail counts the sends of the repeat loop from 0, fpFail the *)
(* sends of the Fast Packet.                                               *)
(***************************************************************************)
REPEAT_COUNT == 10

\* sog_ms = sog_knots * 0.514444, with 0.514444 = 128611 / 250000
KnotsToMs(sog_knots) == Rat(sog_knots.n * 128611, sog_knots.d * 250000)

\* a loop that sends a failing message again until the driver takes it
RECURSIVE RepeatLoop_Retry(_, _, _, _, _)
RepeatLoop_Retry(i, sent, payload_pos, payload_cog_sog, loopFail) ==
    IF i = REPEAT_COUNT THEN sent
    ELSE RepeatLoop_Retry(i + 1,
                          sent \o <<Message(can_pos_rapid, payload_pos),
                                    Message(can_cog_sog, payload_cog_sog)>>,
                          payload_pos, payload_cog_sog, loopFail)

\* for i in range(REPEAT_COUNT): send Position Rapid, then COG/SOG; a send that
\* raises breaks out of the loop.  The result is the frames sent.
RECURSIVE RepeatLoop(_, _, _, _, _)
RepeatLoop(i, sent, payload_pos, payload_cog_sog, loopFail) ==
    IF i = REPEAT_COUNT THEN sent
    ELSE IF loopFail = Len(sent) THEN sent
    ELSE LET sent1 == Append(sent, Message(can_pos_rapid, payload_pos))
         IN  IF loopFail = Len(sent1) THEN sent1
             ELSE RepeatLoop(i + 1, Append(sent1, Message(can_cog_sog, payload_cog_sog)),
                             payload_pos, payload_cog_sog, loopFail)

\* sid = (sid + 1) % 253
NextSid(s) == (s + 1) % 253

\* a counter that is not cut to five bits
NextFastPacketSeq_NoMask(q) == q + 1

\* fast_packet_seq = (fast_packet_seq + 1) & 0x1F
NextFastPacketSeq(q) == BitAnd(q + 1, 31)

NoPayloads == [pos |-> <<>>, cog_sog |-> <<>>, gnss |-> <<>>]

\* the record of a pass: the line it read, the loop variables before it,
\* what it did and which sends raised
PassRecord(outcome, payloads, fpErr, loopFail, fpFail) ==
    [outcome |-> outcome, line |-> n2k_rx, payloads |-> payloads,
     sid |-> sid, seq |-> fast_packet_seq, count |-> msg_count,
     fp_err |-> fpErr, loop_fail |-> loopFail, fp_fail |-> fpFail]

\* a pass that ends in "continue" before a fix is accepted
N2KSkip(why) ==
    /\ n2k_last' = PassRecord(why, NoPayloads, "none", NoFail, NoFail)
    /\ n2k_bus' = <<>>
    /\ UNCHANGED <<sid, fast_packet_seq, msg_count, n2k_fp_ok, n2k_pc>>

\* an encoder's exception that no handler catches: the script ends
N2KEncodeError_Escapes ==
    /\ n2k_last' = PassRecord("error", NoPayloads, "none", NoFail, NoFail)
    /\ n2k_bus' = <<>>
    /\ msg_count' = msg_count + 1
    /\ n2k_pc' = "crashed"
    /\ UNCHANGED <<sid, fast_packet_seq, n2k_fp_ok>>

\* a pass in which an encoder raises: the outer "except Exception" prints and
\* sleeps; msg_count has already been incremented, sid has not
N2KEncodeError ==
    /\ n2k_last' = PassRecord("error", NoPayloads, "none", NoFail, NoFail)
    /\ n2k_bus' = <<>>
    /\ msg_count' = msg_count + 1
    /\ UNCHANGED <<sid, fast_packet_seq, n2k_fp_ok, n2k_pc>>

\* a pass that sends the Fast Packet before the repeat loop
N2KSend_FastPacketFirst(payload_pos, payload_cog_sog, payload_gnss, loopFail, fpFail) ==
    LET repeated == RepeatLoop(0, <<>>, payload_pos, payload_cog_sog, loopFail)
        fp       == SendFastPacket(can_gnss_pos, payload_gnss, fast_packet_seq, fpFail)
    IN  /\ msg_count' = msg_count + 1
        /\ sid' = NextSid(sid)
        /\ n2k_bus' = fp.frames \o repeated
        /\ fast_packet_seq' = IF fp.err = "none" THEN NextFastPacketSeq(fast_packet_seq)
                              ELSE fast_packet_seq
        /\ n2k_fp_ok' = IF fp.err = "none" THEN n2k_fp_ok + 1 ELSE n2k_fp_ok
        /\ n2k_last' = PassRecord("sent",
                                  [pos |-> payload_pos, cog_sog |-> payload_cog_sog,
                                   gnss |-> payload_gnss],
                                  fp.err, loopFail, fpFail)
        /\ UNCHANGED n2k_pc

\* the rest of a pass once the three payloads are encoded
N2KSend(payload_pos, payload_cog_sog, payload_gnss, loopFail, fpFail) ==
    LET repeated == RepeatLoop(0, <<>>, payload_pos, payload_cog_sog, loopFail)
        fp       == SendFastPacket(can_gnss_pos, payload_gnss, fast_packet_seq, fpFail)
    IN  /\ msg_count' = msg_count + 1
        /\ sid' = NextSid(sid)
        /\ n2k_bus' = repeated \o fp.frames
        /\ fast_packet_seq' = IF fp.err = "none" THEN NextFastPacketSeq(fast_packet_seq)
                              ELSE fast_packet_seq
        /\ n2k_fp_ok' = IF fp.err = "none" THEN n2k_fp_ok + 1 ELSE n2k_fp_ok
        /\ n2k_last' = PassRecord("sent",
                                  [pos |-> payload_pos, cog_sog |-> payload_cog_sog,
                                   gnss |-> payload_gnss],
                                  fp.err, loopFail, fpFail)
        /\ UNCHANGED n2k_pc

(***************************************************************************)
(* Bounds of the bridge runs.                                              *)
(***************************************************************************)
MaxFixes == 2
MaxLoopFail == 2

N2KClocks == {[days |-> 20758, time_scaled |-> 432000000],
              [days |-> 20759, time_scaled |-> 1]}

\* the loop body for the line line_bytes; the clock and the failing sends are
\* chosen where the code reaches them.  Each local of the code is bound once,
\* as the value of a singleton set.
N2KBody(line_bytes) ==
    IF line_bytes = <<>> THEN N2KSkip("timeout")
    ELSE \E line \in {Strip(Decode(line_bytes))} :
         IF ~StartsWith(line, <<"$">>) THEN N2KSkip("no dollar")
         ELSE \E fix \in {parse_gprmc(line)} :
              IF ~fix.ok THEN N2KSkip("no fix")
              ELSE \E sog_ms \in {KnotsToMs(fix.sog_knots)} :
                   \E pos \in {encode_position_rapid(fix.lat, fix.lon)} :
                   \E cog_sog \in {encode_cog_sog_rapid(fix.cog_deg, sog_ms, sid)} :
                   IF pos.err # "none" \/ cog_sog.err # "none" THEN N2KEncodeError
                   ELSE \E now \in N2KClocks :
                        \E gnss \in {encode_gnss_position(fix.lat, fix.lon, now, sid)} :
                        IF gnss.err # "none" THEN N2KEncodeError
                        ELSE \E loopFail \in {NoFail} \cup (0..MaxLoopFail),
                                fpFail \in {NoFail} \cup (0..MaxFailAt) :
                                N2KSend(pos.data, cog_sog.data, gnss.data,
                                        loopFail, fpFail)

\* the loop variables fresh, and after 252 fixes of which 31 were sent whole
N2KStarts ==
    {[sid |-> 0, fast_packet_seq |-> 0, msg_count |-> 0, fp_ok |-> 0],
     [sid |-> 252, fast_packet_seq |-> 31, msg_count |-> 252, fp_ok |-> 31]}

\* lines keep arriving until MaxFixes fixes were accepted
N2KMayRead ==
    \/ msg_count < MaxFixes
    \/ msg_count >= 252 /\ msg_count < 252 + MaxFixes

StartRecord ==
    [outcome |-> "start", line |-> <<>>, payloads |-> NoPayloads,
     sid |-> 0, seq |-> 0, count |-> 0,
     fp_err |-> "none", loop_fail |-> NoFail, fp_fail |-> NoFail]

N2KInit ==
    /\ \E st \in N2KStarts :
          /\ sid = st.sid
          /\ fast_packet_seq = st.fast_packet_seq
          /\ msg_count = st.msg_count
          /\ n2k_fp_ok = st.fp_ok
    /\ n2k_pc = "running"
    /\ n2k_last = StartRecord
    /\ n2k_bus = <<>>
    /\ n2k_rx = <<>>

N2KIdle ==
    /\ sid = 0
    /\ fast_packet_seq = 0
    /\ msg_count = 0
    /\ n2k_fp_ok = 0
    /\ n2k_pc = "idle"
    /\ n2k_last = StartRecord
    /\ n2k_bus = <<>>
    /\ n2k_rx = <<>>

\* the GPS receiver sends a line, whether or not the loop still runs
N2KArrive ==
    /\ n2k_pc # "idle"
    /\ N2KMayRead
    /\ n2k_rx = <<>>
    /\ \E line_bytes \in SerialLines \ {<<>>} : n2k_rx' = line_bytes
    /\ UNCHANGED <<sid, fast_packet_seq, msg_count, n2k_fp_ok, n2k_pc, n2k_last,
                   n2k_bus, n2kOthers>>

\* one pass of the while loop: readline() gives the waiting line, or b"" after
\* its timeout
N2KIteration ==
    /\ n2k_pc = "running"
    /\ N2KBody(n2k_rx)
    /\ n2k_rx' = <<>>
    /\ UNCHANGED n2kOthers

\* ser.readline() raises: the outer "except Exception" prints and sleeps
N2KReadError ==
    /\ n2k_pc = "running"
    /\ n2k_last' = [PassRecord("read error", NoPayloads, "none", NoFail, NoFail)
                       EXCEPT !.line = <<>>]
    /\ n2k_bus' = <<>>
    /\ UNCHANGED <<sid, fast_packet_seq, msg_count, n2k_fp_ok, n2k_pc, n2k_rx,
                   n2kOthers>>

\* KeyboardInterrupt: "Exiting...", break
N2KInterrupt ==
    /\ n2k_pc = "running"
    /\ n2k_pc' = "exited"
    /\ UNCHANGED <<sid, fast_packet_seq, msg_count, n2k_fp_ok, n2k_last, n2k_bus,
                   n2k_rx, n2kOthers>>

N2KNext == N2KArrive \/ N2KIteration \/ N2KReadError \/ N2KInterrupt

(***************************************************************************)
(* main() of send_can_j1939.py: the NMEA 0183 -> SAE J1939 bridge loop,    *)
(* one pass of "while True" per step.                                      *)
(***************************************************************************)
REPEAT_COUNT_J1939 == 5

\* for i in range(REPEAT_COUNT): send Vehicle Position, then Vehicle
\* Direction/Speed; a send that raises breaks out of the loop
RECURSIVE J1939RepeatLoop(_, _, _, _, _)
J1939RepeatLoop(i, sent, payload_pos, payload_dir, loopFail) ==
    IF i = REPEAT_COUNT_J1939 THEN sent
    ELSE IF loopFail = Len(sent) THEN sent
    ELSE LET sent1 == Append(sent, Message(can_position, payload_pos))
         IN  IF loopFail = Len(sent1) THEN sent1
             ELSE J1939RepeatLoop(i + 1, Append(sent1, Message(can_direction, payload_dir)),
                                  payload_pos, payload_dir, loopFail)

J1939NoPayloads == [pos |-> <<>>, dir |-> <<>>]

\* a pass that ends in "continue"
J1939Skip(why) ==
    /\ j1939_last' = [outcome |-> why, line |-> j1939_rx, payloads |-> J1939NoPayloads,
                      loop_fail |-> NoFail]
    /\ j1939_bus' = <<>>
    /\ UNCHANGED j1939_pc

\* a pass in which an encoder raises: the outer "except Exception"
J1939EncodeError ==
    /\ j1939_last' = [outcome |-> "error", line |-> j1939_rx,
                      payloads |-> J1939NoPayloads, loop_fail |-> NoFail]
    /\ j1939_bus' = <<>>
    /\ UNCHANGED j1939_pc

\* the repeat loop of a pass
J1939Send(payload_pos, payload_dir, loopFail) ==
    /\ j1939_bus' = J1939RepeatLoop(0, <<>>, payload_pos, payload_dir, loopFail)
    /\ j1939_last' = [outcome |-> "sent", line |-> j1939_rx,
                      payloads |-> [pos |-> payload_pos, dir |-> payload_dir],
                      loop_fail |-> loopFail]
    /\ UNCHANGED j1939_pc

\* the loop body for the line line_bytes
J1939Body(line_bytes) ==
    IF line_bytes = <<>> THEN J1939Skip("timeout")
    ELSE \E line \in {Strip(Decode(line_bytes))} :
         IF ~StartsWith(line, <<"$">>) THEN J1939Skip("no dollar")
         ELSE \E fix \in {parse_gprmc(line)} :
              IF ~fix.ok THEN J1939Skip("no fix")
              ELSE \E sog_ms \in {KnotsToMs(fix.sog_knots)} :
                   \E pos \in {encode_vehicle_position(fix.lat, fix.lon)} :
                   \E dir \in {encode_vehicle_direction_speed(fix.cog_deg, sog_ms)} :
                   IF pos.err # "none" \/ dir.err # "none" THEN J1939EncodeError
                   ELSE \E loopFail \in {NoFail} \cup (0..MaxLoopFail) :
                           J1939Send(pos.data, dir.data, loopFail)

J1939StartRecord ==
    [outcome |-> "start", line |-> <<>>, payloads |-> J1939NoPayloads,
     loop_fail |-> NoFail]

J1939Init ==
    /\ j1939_pc = "running"
    /\ j1939_rx = <<>>
    /\ j1939_last = J1939StartRecord
    /\ j1939_bus = <<>>

J1939Idle ==
    /\ j1939_pc = "idle"
    /\ j1939_rx = <<>>
    /\ j1939_last = J1939StartRecord
    /\ j1939_bus = <<>>

\* the GPS receiver sends a line, whether or not the loop still runs
J1939Arrive ==
    /\ j1939_pc # "idle"
    /\ j1939_rx = <<>>
    /\ \E line_bytes \in SerialLines \ {<<>>} : j1939_rx' = line_bytes
    /\ UNCHANGED <<j1939_pc, j1939_last, j1939_bus, j1939Others>>

\* one pass of the while loop
J1939Iteration ==
    /\ j1939_pc = "running"
    /\ J1939Body(j1939_rx)
    /\ j1939_rx' = <<>>
    /\ UNCHANGED j1939Others

\* ser.readline() raises: the outer "except Exception" prints and sleeps
J1939ReadError ==
    /\ j1939_pc = "running"
    /\ j1939_last' = [outcome |-> "read error", line |-> <<>>,
                      payloads |-> J1939NoPayloads, loop_fail |-> NoFail]
    /\ j1939_bus' = <<>>
    /\ UNCHANGED <<j1939_pc, j1939_rx, j1939Others>>

\* KeyboardInterrupt: "Exiting...", break
J1939Interrupt ==
    /\ j1939_pc = "running"
    /\ j1939_pc' = "exited"
    /\ UNCHANGED <<j1939_rx, j1939_last, j1939_bus, j1939Others>>

J1939Next == J1939Arrive \/ J1939Iteration \/ J1939ReadError \/ J1939Interrupt

(***************************************************************************)
(* main() of serial_filter_bridge.py.  One pass of "while True" is one     *)
(* step; the environment supplies the line read and whether a port call    *)
(* raises.                                                                 *)
(***************************************************************************)
DROP_TOKEN == <<"P", "H", "T", "G">>

\* str.encode("ascii", errors="ignore")
Encode(t) == SelectSeq(t, LAMBDA c : c # BadByte)

\* a PHTG sentence, with blanks before it and a bare line feed
LinePhtg ==
    <<" ", "$", "P", "H", "T", "G", ",", "0", ",", "A", "B", "\n">>

\* a GPTXT sentence whose text field holds the letters PHTG
LineTxtPhtg ==
    <<"$", "G", "P", "T", "X", "T", ",", "0", "1", ",", "P", "H", "T", "G", "\r",
      "\n">>

\* a short GLL sentence with an undecodable byte inside
LineGll ==
    <<"$", "G", "P", "G", "L", "L", ",", BadByte, "A", "\r", "\n">>

FilterLines ==
    {<<>>, LineGll, LineRmcShort, LinePhtg, LineTxtPhtg, LineNoDollar, LineBlank}

MaxLines == 3

FilterInit ==
    /\ filt_pc = "running"
    /\ filt_rx = <<>>
    /\ filt_in = <<>>
    /\ filt_out = <<>>
    /\ filt_fault = FALSE

FilterIdle ==
    /\ filt_pc = "idle"
    /\ filt_rx = <<>>
    /\ filt_in = <<>>
    /\ filt_out = <<>>
    /\ filt_fault = FALSE

\* the talker sends a line (MaxLines of them at most), whether or not the
\* loop still runs
FilterArrive ==
    /\ filt_pc # "idle"
    /\ filt_rx = <<>>
    /\ Len(filt_in) < MaxLines
    /\ \E line_bytes \in FilterLines \ {<<>>} : filt_rx' = line_bytes
    /\ UNCHANGED <<filt_pc, filt_in, filt_out, filt_fault, filtOthers>>

\* the loop body for the line line_bytes when no port call raises
FilterBody(line_bytes) ==
    IF line_bytes = <<>> THEN UNCHANGED <<filt_in, filt_out>>
    ELSE /\ filt_in' = Append(filt_in, line_bytes)
         /\ \E text \in {Strip(Decode(line_bytes))} :
               IF text = <<>> THEN UNCHANGED filt_out
               ELSE IF ~StartsWith(text, <<"$">>) THEN UNCHANGED filt_out
               ELSE IF Contains(text, DROP_TOKEN) THEN UNCHANGED filt_out
               ELSE filt_out' = Append(filt_out, Encode(text \o <<"\r", "\n">>))

\* one pass of the while loop in which no port call raises: readline() gives
\* the waiting line, or b"" after its timeout
FilterIteration ==
    /\ filt_pc = "running"
    /\ FilterBody(filt_rx)
    /\ filt_rx' = <<>>
    /\ UNCHANGED <<filt_pc, filt_fault, filtOthers>>

\* ser_in.readline() raises: "except Exception" prints and sleeps
FilterReadError ==
    /\ filt_pc = "running"
    /\ filt_fault' = TRUE
    /\ UNCHANGED <<filt_pc, filt_rx, filt_in, filt_out, filtOthers>>

\* the waiting line passes the tests and ser_out.write() raises: nothing is
\* written, "except Exception" prints and sleeps
FilterWriteError ==
    /\ filt_pc = "running"
    /\ filt_rx # <<>>
    /\ \E text \in {Strip(Decode(filt_rx))} :
          /\ text # <<>>
          /\ StartsWith(text, <<"$">>)
          /\ ~Contains(text, DROP_TOKEN)
    /\ filt_in' = Append(filt_in, filt_rx)
    /\ filt_rx' = <<>>
    /\ filt_fault' = TRUE
    /\ UNCHANGED <<filt_pc, filt_out, filtOthers>>

\* KeyboardInterrupt: "Stopping bridge.", break
FilterInterrupt ==
    /\ filt_pc = "running"
    /\ filt_pc' = "exited"
    /\ UNCHANGED <<filt_rx, filt_in, filt_out, filt_fault, filtOthers>>

FilterNext ==
    FilterArrive \/ FilterIteration \/ FilterReadError \/ FilterWriteError
        \/ FilterInterrupt

(***************************************************************************)
(* Fast Packet receiver: the reassembly of the frames send_fast_packet     *)
(* emits, one FastPacketSession per CAN identifier.  Two senders each send *)
(* one message; their frames arrive in any interleaving that keeps each    *)
(* sender's order.                                                         *)
(***************************************************************************)
\* the identifier of the bridge and that of a second sender of the same PGN
can_gnss_pos_other == nmea2000_build_can_id(PGN_GNSS_POSITION, 35, 3)

RxIds == {can_gnss_pos, can_gnss_pos_other}

RxLens == {9, 20, 55}

RxSeqs == {5, 31}

\* the payload a sender sends: its bytes tell the senders apart
RxFamily(id) == IF id = can_gnss_pos THEN [a |-> 1, b |-> 0] ELSE [a |-> 7, b |-> 250]

RxPayload(id) == Payload(rx_msgs[id].len, RxFamily(id))

NoSession == [open |-> FALSE]

\* a buffer position no frame has written
NoByte == 0 - 1

\* frame indices a message of total_length bytes needs: 0 .. ceil((L - 6) / 7)
RxRequired(total_length) ==
    0..(IF total_length <= 6 THEN 0 ELSE (total_length - 6 + 6) \div 7)

RxComplete(session) == RxRequired(session.total_length) \subseteq session.frames_received

\* the buffer after the data bytes of a frame are written at offset (0-based)
RxWrite(buffer, bytes, offset) ==
    [i \in 1..Len(buffer) |->
        IF i > offset /\ i - offset <= Len(bytes) THEN bytes[i - offset] ELSE buffer[i]]

\* a frame 0 starts (or restarts) the session of its identifier
RxStart(frame) ==
    [open |-> TRUE,
     sequence_counter |-> BitAnd(frame.data[1], 31),
     total_length |-> frame.data[2],
     frames_received |-> {0},
     buffer |-> RxWrite([i \in 1..frame.data[2] |-> NoByte],
                        SubSeq(frame.data, 3, Len(frame.data)), 0)]

\* a continuation frame of the session's sequence counter is written at its offset
RxContinue(session, frame) ==
    LET frame_index == Shr(frame.data[1], 5)
    IN  [session EXCEPT
            !.frames_received = @ \cup {frame_index},
            !.buffer = RxWrite(@, SubSeq(frame.data, 2, Len(frame.data)),
                               6 + 7 * (frame_index - 1))]

\* the receiver's step on one frame: the new table, what is delivered upward
\* and how many frames are discarded
RxReceive(table, frame) ==
    LET id      == frame.arbitration_id
        is0     == Len(frame.data) >= 2 /\ Shr(frame.data[1], 5) = 0
        matches == /\ Len(frame.data) >= 1
                   /\ table[id].open
                   /\ table[id].sequence_counter = BitAnd(frame.data[1], 31)
        session == IF is0 THEN RxStart(frame) ELSE RxContinue(table[id], frame)
    IN  IF ~is0 /\ ~matches
        THEN [table |-> table, delivered |-> <<>>, dropped |-> 1]
        ELSE IF RxComplete(session)
        THEN [table |-> [table EXCEPT ![id] = NoSession],
              delivered |-> <<[can_id |-> id, payload |-> session.buffer]>>,
              dropped |-> 0]
        ELSE [table |-> [table EXCEPT ![id] = session], delivered |-> <<>>, dropped |-> 0]

RxInit ==
    /\ rx_pc = "running"
    /\ rx_msgs \in [RxIds -> [len : RxLens, seq : RxSeqs]]
    /\ rx_wire = [id \in RxIds |->
                     SendFastPacket(id, RxPayload(id), rx_msgs[id].seq, NoFail).frames]
    /\ rx_sessions = [id \in RxIds |-> NoSession]
    /\ rx_before = [id \in RxIds |-> NoSession]
    /\ rx_last = 0
    /\ rx_delivered = <<>>
    /\ rx_dropped = 0
    /\ rx_lost = {}

RxIdle ==
    /\ rx_pc = "idle"
    /\ rx_msgs = [id \in RxIds |-> [len |-> 0, seq |-> 0]]
    /\ rx_wire = [id \in RxIds |-> <<>>]
    /\ rx_sessions = [id \in RxIds |-> NoSession]
    /\ rx_before = [id \in RxIds |-> NoSession]
    /\ rx_last = 0
    /\ rx_delivered = <<>>
    /\ rx_dropped = 0
    /\ rx_lost = {}

\* the next frame of one sender arrives
RxArrive ==
    /\ rx_pc = "running"
    /\ \E id \in RxIds :
          /\ rx_wire[id] # <<>>
          /\ \E r \in {RxReceive(rx_sessions, Head(rx_wire[id]))} :
                /\ rx_sessions' = r.table
                /\ rx_delivered' = rx_delivered \o r.delivered
                /\ rx_dropped' = rx_dropped + r.dropped
          /\ rx_wire' = [rx_wire EXCEPT ![id] = Tail(@)]
          /\ rx_last' = id
    /\ rx_before' = rx_sessions
    /\ UNCHANGED <<rx_pc, rx_msgs, rx_lost, rxOthers>>

\* a session saw no frame within the inactivity timeout and is discarded
RxTimeout ==
    /\ rx_pc = "running"
    /\ \E id \in RxIds :
          /\ rx_sessions[id].open
          /\ rx_sessions' = [rx_sessions EXCEPT ![id] = NoSession]
          /\ rx_lost' = rx_lost \cup {id}
          /\ rx_last' = id
    /\ rx_before' = rx_sessions
    /\ UNCHANGED <<rx_pc, rx_msgs, rx_wire, rx_delivered, rx_dropped, rxOthers>>

RxNext == RxArrive \/ RxTimeout

(***************************************************************************)
(* Specifications: each runs one component, the others stay idle.          *)
(***************************************************************************)
InitId ==
    /\ IdInit
    /\ FPIdle
    /\ EncIdle
    /\ N2KIdle
    /\ FilterIdle
    /\ J1939Idle
    /\ RxIdle

SpecId == InitId /\ [][IdNext]_vars

InitEnc ==
    /\ EncInit
    /\ IdIdle
    /\ FPIdle
    /\ N2KIdle
    /\ FilterIdle
    /\ J1939Idle
    /\ RxIdle

SpecEnc == InitEnc /\ [][EncNext]_vars

InitFP ==
    /\ FPInit
    /\ IdIdle
    /\ EncIdle
    /\ N2KIdle
    /\ FilterIdle
    /\ J1939Idle
    /\ RxIdle

SpecFP == InitFP /\ [][FPNext]_vars

InitN2K ==
    /\ N2KInit
    /\ IdIdle
    /\ EncIdle
    /\ FPIdle
    /\ FilterIdle
    /\ J1939Idle
    /\ RxIdle

SpecN2K == InitN2K /\ [][N2KNext]_vars

InitFilter ==
    /\ FilterInit
    /\ IdIdle
    /\ EncIdle
    /\ FPIdle
    /\ N2KIdle
    /\ J1939Idle
    /\ RxIdle

SpecFilter == InitFilter /\ [][FilterNext]_vars

InitJ1939 ==
    /\ J1939Init
    /\ IdIdle
    /\ EncIdle
    /\ FPIdle
    /\ N2KIdle
    /\ FilterIdle
    /\ RxIdle

SpecJ1939 == InitJ1939 /\ [][J1939Next]_vars

InitRx ==
    /\ RxInit
    /\ IdIdle
    /\ EncIdle
    /\ FPIdle
    /\ N2KIdle
    /\ FilterIdle
    /\ J1939Idle

SpecRx == InitRx /\ [][RxNext]_vars

\* one of the three bridge scripts runs
InitBridges ==
    /\ IdIdle
    /\ EncIdle
    /\ FPIdle
    /\ RxIdle
    /\ \/ N2KInit /\ J1939Idle /\ FilterIdle
       \/ N2KIdle /\ J1939Init /\ FilterIdle
       \/ N2KIdle /\ J1939Idle /\ FilterInit

BridgesNext == N2KNext \/ J1939Next \/ FilterNext

SpecBridges == InitBridges /\ [][BridgesNext]_vars

\* the step by which a running loop takes the line waiting at its port: the
\* N2KIteration, J1939Iteration, FilterIteration or FilterWriteError step of a
\* pass whose readline() returned the line
N2KTakesLine == n2k_pc = "running" /\ n2k_rx # <<>> /\ n2k_rx' = <<>>

J1939TakesLine == j1939_pc = "running" /\ j1939_rx # <<>> /\ j1939_rx' = <<>>

FilterTakesLine == filt_pc = "running" /\ filt_rx # <<>> /\ filt_rx' = <<>>

\* "while True": a running loop always goes on to its next pass, and a
\* readline() that has a line to return does not raise for ever
BridgesFairness ==
    /\ WF_n2k_rx(N2KTakesLine)
    /\ WF_j1939_rx(J1939TakesLine)
    /\ WF_filt_rx(FilterTakesLine)

SpecBridgesLive == InitBridges /\ [][BridgesNext]_vars /\ BridgesFairness

(***************************************************************************)
(* Claims about the Fast Packet framer (checked under SpecFP).             *)
(***************************************************************************)
FPReturnedNoBusFault == fp_pc # "ready" /\ fp_args.failAt = NoFail

\* ceil(max(L - 6, 0) / 7)
FPContinuations(L) == (Max(L - 6, 0) + 6) \div 7

\* byte k (0-based) of the payload handed to the call
FPByte(k) == FPData[k + 1]

\* C1: for every payload of length L in 0..55 and every sequence counter S, when
\* the bus accepts every frame the call returns having handed the bus exactly
\* 1 + ceil(max(L-6,0)/7) frames in order: frame 0 is [S mod 32, L] followed by
\* payload[0:6], and continuation frame i (1..N) is the header (S mod 32) | (i<<5)
\* followed by payload[6+7(i-1) : 6+7i], the missing tail bytes of the last
\* continuation frame being 0xFF; 43 bytes with counter 7 give 7 frames.
C1_FrameLayout ==
    (FPReturnedNoBusFault /\ fp_args.len <= 55) =>
        LET L == fp_args.len
            S == fp_args.seq % 32
            N == FPContinuations(L)
        IN  /\ fp_pc = "returned"
            /\ Len(fp_bus) = 1 + N
            /\ \A i \in 1..Len(fp_bus) : fp_bus[i].arbitration_id = can_gnss_pos
            /\ Len(fp_bus[1].data) = 2 + Min(L, 6)
            /\ fp_bus[1].data[1] = S
            /\ fp_bus[1].data[2] = L
            /\ \A k \in 0..(Min(L, 6) - 1) : fp_bus[1].data[3 + k] = FPByte(k)
            /\ \A i \in 1..N :
                 /\ Len(fp_bus[i + 1].data) = 8
                 /\ fp_bus[i + 1].data[1] = S + 32 * i
                 /\ \A j \in 0..6 :
                      fp_bus[i + 1].data[2 + j] =
                          IF 6 + 7 * (i - 1) + j < L
                          THEN FPByte(6 + 7 * (i - 1) + j) ELSE 255
            /\ (L = 43 /\ fp_args.seq = 7) => Len(fp_bus) = 7

C1_Witness ==
    /\ fp_pc = "returned"
    /\ fp_args.len = 43
    /\ fp_args.seq = 7
    /\ fp_args.fam = [a |-> 1, b |-> 0]
    /\ Len(fp_bus) = 7
    /\ fp_bus[7].data = <<199, 41, 42, 255, 255, 255, 255, 255>>

\* the receiver's side of the round trip: bytes 2..7 of frame 0, then bytes 1..7
\* of every continuation frame, cut to the length byte of frame 0
RECURSIVE ConcatData(_, _)
ConcatData(frames, i) ==
    IF i > Len(frames) THEN <<>>
    ELSE SubSeq(frames[i].data, IF i = 1 THEN 3 ELSE 2, Len(frames[i].data))
         \o ConcatData(frames, i + 1)

Reassemble(frames) ==
    LET all == ConcatData(frames, 1)
    IN  SubSeq(all, 1, Min(frames[1].data[2], Len(all)))

\* C2: round trip: whenever send_fast_packet returns, reassembling the frames it
\* emitted, in emission order, gives back the payload it was handed.
C2_RoundTrip ==
    fp_pc = "returned" => Reassemble(fp_bus) = FPData

C2_Witness ==
    /\ fp_pc = "returned"
    /\ fp_args.len = 55
    /\ fp_args.fam = [a |-> 7, b |-> 250]
    /\ Len(fp_bus) = 8
    /\ Reassemble(fp_bus) = FPData

\* C3: a payload longer than 55 bytes (frame index above 7) or longer than 255
\* bytes (length byte) makes the call fail before any frame reaches the bus.
C3_RejectedBeforeAnyFrame ==
    (FPReturnedNoBusFault /\ fp_args.len > 55) =>
        (fp_pc = "raised" /\ fp_bus = <<>>)

\* C4: every frame handed to the bus has exactly 8 data bytes.
C4_EveryFrameEightBytes ==
    \A i \in 1..Len(fp_bus) : Len(fp_bus[i].data) = 8

\* the receiver's side: the five fields of a 29-bit identifier
ParseCanId(raw) ==
    [priority       |-> (raw \div 67108864) % 8,
     reserved       |-> (raw \div 33554432) % 2,
     data_page      |-> (raw \div 16777216) % 2,
     pdu_format     |-> (raw \div 65536) % 256,
     pdu_specific   |-> (raw \div 256) % 256,
     source_address |-> raw % 256]

\* C5: for every 17-bit PGN, priority 0..7 and source address 0..255 the
\* identifier nmea2000_build_can_id returns is
\* priority<<26 | data_page<<24 | pdu_format<<16 | pdu_specific<<8 | source_address
\* with data_page, pdu_format, pdu_specific bits 16, 8..15, 0..7 of the PGN; it is
\* below 2^29, its reserved bit 25 is clear, and parsing it gives the inputs back,
\* for PDU1 and PDU2 PGNs alike.
C5_CanIdPackParse ==
    id_pc = "nmea2000" =>
        LET pgn == id_args.pgn
            dp  == pgn \div 65536
            pf  == (pgn \div 256) % 256
            ps  == pgn % 256
            f   == ParseCanId(id_out)
        IN  /\ id_out = id_args.priority * 67108864 + dp * 16777216
                        + pf * 65536 + ps * 256 + id_args.sa
            /\ id_out < 536870912
            /\ f.reserved = 0
            /\ f.priority = id_args.priority
            /\ f.source_address = id_args.sa
            /\ f.data_page * 65536 + f.pdu_format * 256 + f.pdu_specific = pgn

C5_Witness ==
    /\ id_pc = "nmea2000"
    /\ id_args = [pgn |-> 129029, sa |-> 128, priority |-> 3]
    /\ id_out = 234358144
    /\ ParseCanId(id_out).pdu_format >= 240

(***************************************************************************)
(* Claims about the payload encoders (checked under SpecEnc).              *)
(***************************************************************************)
\* the unsigned 16-bit field at byte offset off (0-based) of a payload
U16At(data, off) == data[off + 1] + 256 * data[off + 2]

\* the four bytes of the 32-bit field at byte offset off
Field32(data, off) == SubSeq(data, off + 1, off + 4)

\* raw is a nearest integer to x * k / d, for x >= 0 (a tie allows both)
IsNearest(raw, x, k, d) ==
    LET g  == GCD(k, d)
        kk == k \div g
        dd == d \div g
        m  == (x \div dd) * kk + ((x % dd) * kk) \div dd
        r  == ((x % dd) * kk) % dd
    IN  \/ raw = m /\ 2 * r <= dd
        \/ raw = m + 1 /\ 2 * r >= dd

WideInc(w) ==
    IF w.lo + 1 = Wide7 THEN [neg |-> w.neg, hi |-> w.hi + 1, lo |-> 0]
    ELSE [neg |-> w.neg, hi |-> w.hi, lo |-> w.lo + 1]

\* the wide integers nearest to x * 10^7
NearestE7(x) ==
    LET g  == GCD(Wide7, x.d)
        dd == x.d \div g
        r  == ((Abs(x.n) % x.d) * (Wide7 \div g)) % dd
        t  == ScaleE7(x)
    IN  (IF 2 * r <= dd THEN {t} ELSE {}) \cup (IF 2 * r >= dd THEN {WideInc(t)} ELSE {})

\* nominal ranges of the inputs
InLatRange(x) == Abs(x.n) <= 90 * x.d

InLonRange(x) == Abs(x.n) <= 180 * x.d

InCourseRange(x) == 0 <= x.n /\ x.n <= 360 * x.d

InSogRange(x) == 0 <= x.n /\ x.n <= 650 * x.d

InVehicleSpeedRange(x) == 0 <= x.n /\ x.n <= 69 * x.d

\* C6: for every scaled field and every value inside its nominal range the raw
\* integer written is the nearest integer to (value - offset) / scale, so that
\* decoding is off by at most half a scale step (45.0 degrees and 0.61733 m/s
\* give COG raw 7854 and SOG raw 62).
C6_RawIsNearest ==
    /\ (enc_pc = "encode_position_rapid" /\ enc_out.err = "none") =>
          /\ InLatRange(enc_args.lat) =>
                \E w \in NearestE7(enc_args.lat) : Field32(enc_out.data, 0) = PackI32(w)
          /\ InLonRange(enc_args.lon) =>
                \E w \in NearestE7(enc_args.lon) : Field32(enc_out.data, 4) = PackI32(w)
    /\ enc_pc = "encode_cog_sog_rapid" =>
          /\ InCourseRange(enc_args.cog) =>
                IsNearest(U16At(enc_out.data, 2), enc_args.cog.n, 177500,
                          1017 * enc_args.cog.d)
          /\ InSogRange(enc_args.sog) =>
                IsNearest(U16At(enc_out.data, 4), enc_args.sog.n, 100, enc_args.sog.d)
          /\ (enc_args.cog = Rat(450, 10) /\ enc_args.sog = Rat(61733, 100000)) =>
                (U16At(enc_out.data, 2) = 7854 /\ U16At(enc_out.data, 4) = 62)
    /\ enc_pc = "encode_vehicle_position" =>
          /\ InLatRange(enc_args.lat) =>
                \E w \in NearestE7(Rat(enc_args.lat.n + 210 * enc_args.lat.d,
                                       enc_args.lat.d)) :
                    Field32(enc_out.data, 0) = PackU32(w)
          /\ InLonRange(enc_args.lon) =>
                \E w \in NearestE7(Rat(enc_args.lon.n + 210 * enc_args.lon.d,
                                       enc_args.lon.d)) :
                    Field32(enc_out.data, 4) = PackU32(w)
    /\ enc_pc = "encode_vehicle_direction_speed" =>
          /\ InCourseRange(enc_args.cog) =>
                IsNearest(U16At(enc_out.data, 0), enc_args.cog.n, 128, enc_args.cog.d)
          /\ InVehicleSpeedRange(enc_args.sog) =>
                IsNearest(U16At(enc_out.data, 2), enc_args.sog.n, 4608,
                          5 * enc_args.sog.d)

\* the boundary a value x * k / d is clamped to in an unsigned 16-bit field,
\* when it lies outside 0..65535
Boundary16(raw, x, k, d) ==
    /\ x < 0 => raw = 0
    /\ MulDivTrunc(x, k, d) > 65535 => raw = 65535

\* the signed 32-bit boundary nearest to a wide value outside the range
ClampedI32(w) ==
    IF FitsInt32(w) THEN PackI32(w)
    ELSE IF w.neg THEN <<0, 0, 0, 128>> ELSE <<255, 255, 255, 127>>

\* C7: no payload encoder fails on a numeric input; a value outside a field's
\* representable range is encoded as the nearest representable boundary value
\* (a latitude beyond the signed 32-bit range of encode_position_rapid, a
\* negative speed of encode_cog_sog_rapid).
C7_NeverFailsClamps ==
    enc_pc \notin {"ready", "idle"} =>
        /\ enc_out.err = "none"
        /\ enc_pc = "encode_position_rapid" =>
              /\ Field32(enc_out.data, 0) = ClampedI32(ScaleE7(enc_args.lat))
              /\ Field32(enc_out.data, 4) = ClampedI32(ScaleE7(enc_args.lon))
        /\ enc_pc = "encode_cog_sog_rapid" =>
              /\ Boundary16(U16At(enc_out.data, 2), enc_args.cog.n, 177500,
                            1017 * enc_args.cog.d)
              /\ Boundary16(U16At(enc_out.data, 4), enc_args.sog.n, 100, enc_args.sog.d)
        /\ enc_pc = "encode_vehicle_direction_speed" =>
              /\ Boundary16(U16At(enc_out.data, 0), enc_args.cog.n, 128, enc_args.cog.d)
              /\ Boundary16(U16At(enc_out.data, 2), enc_args.sog.n, 4608,
                            5 * enc_args.sog.d)

\* C8: a numeric input is never encoded as the "data not available" sentinel:
\* the COG and SOG fields of encode_cog_sog_rapid and the bearing and speed
\* fields of encode_vehicle_direction_speed never hold 0xFFFF, the fields of
\* encode_vehicle_position never hold 0xFFFFFFFF (every input of the harness is
\* numeric).
C8_NeverTheSentinel ==
    /\ enc_pc = "encode_cog_sog_rapid" =>
          /\ U16At(enc_out.data, 2) # 65535
          /\ U16At(enc_out.data, 4) # 65535
    /\ enc_pc = "encode_vehicle_direction_speed" =>
          /\ U16At(enc_out.data, 0) # 65535
          /\ U16At(enc_out.data, 2) # 65535
    /\ enc_pc = "encode_vehicle_position" =>
          /\ Field32(enc_out.data, 0) # <<255, 255, 255, 255>>
          /\ Field32(enc_out.data, 4) # <<255, 255, 255, 255>>

\* C9: in the NMEA 2000 bridge loop the SID-carrying payloads prepared for one
\* fix carry the same SID: byte 0 of the COG/SOG payload equals byte 0 of the
\* GNSS Position payload, that SID is the loop's sid at the time of the fix,
\* and sid stays in 0..252 and has advanced by one modulo 253 after the fix.
C9_OneSidPerFix ==
    n2k_pc # "idle" =>
        /\ sid \in 0..252
        /\ n2k_last.outcome = "sent" =>
              /\ n2k_last.payloads.cog_sog[1] = n2k_last.sid
              /\ n2k_last.payloads.gnss[1] = n2k_last.payloads.cog_sog[1]
              /\ sid = (n2k_last.sid + 1) % 253

\* a sentence: a line whose text, decoded and stripped, starts with "$"
IsSentence(line_bytes) == StartsWith(Strip(Decode(line_bytes)), <<"$">>)

\* a PHTG sentence: a sentence whose address field is PHTG
IsPhtgSentence(line_bytes) ==
    StartsWith(Strip(Decode(line_bytes)), <<"$">> \o DROP_TOKEN)

\* the sentences of lines that are not PHTG sentences, each with CRLF, in order
RECURSIVE ForwardedOf(_)
ForwardedOf(lines) ==
    IF lines = <<>> THEN <<>>
    ELSE (IF IsSentence(Head(lines)) /\ ~IsPhtgSentence(Head(lines))
          THEN <<Strip(Decode(Head(lines))) \o <<"\r", "\n">>>>
          ELSE <<>>)
         \o ForwardedOf(Tail(lines))

\* C10: as long as no port call has raised, the lines written to the output
\* port are exactly the input sentences (lines starting with "$") that are not
\* PHTG sentences, in input order, each written once and ended by CRLF: no PHTG
\* sentence is written and no sentence of another type is dropped.
C10_ForwardsAllButPhtg ==
    (filt_pc # "idle" /\ ~filt_fault) => filt_out = ForwardedOf(filt_in)

\* C11: Fast Packet reassembly keeps one session per CAN identifier.  When the
\* frames of two messages from different identifiers arrive interleaved, a
\* step about one identifier leaves the other identifier's session (buffer,
\* seen-frame set, sequence counter) as it was; every session holds the length
\* and counter of its own message and only bytes of its own payload; every
\* payload delivered is byte-exact; and each sender whose frames have all
\* arrived without a timeout has had its payload delivered exactly once.
C11_SessionPerIdentifier ==
    rx_pc = "running" =>
        /\ \A id \in RxIds : id # rx_last => rx_sessions[id] = rx_before[id]
        /\ \A id \in RxIds :
              rx_sessions[id].open =>
                  /\ rx_sessions[id].total_length = rx_msgs[id].len
                  /\ rx_sessions[id].sequence_counter = rx_msgs[id].seq % 32
                  /\ \A i \in 1..rx_msgs[id].len :
                        rx_sessions[id].buffer[i] \in {NoByte, RxPayload(id)[i]}
        /\ \A k \in 1..Len(rx_delivered) :
              rx_delivered[k].payload = RxPayload(rx_delivered[k].can_id)
        /\ \A id \in RxIds :
              (rx_wire[id] = <<>> /\ id \notin rx_lost) =>
                  Cardinality({k \in 1..Len(rx_delivered) :
                                  rx_delivered[k].can_id = id}) = 1

\* the 55-byte message of the bridge was delivered while the session of the
\* other sender, which uses the same sequence counter, was open with frames
\* 0, 1 and 2 in its buffer
C11_Witness ==
    /\ rx_pc = "running"
    /\ rx_lost = {}
    /\ rx_dropped = 0
    /\ rx_msgs[can_gnss_pos].seq = rx_msgs[can_gnss_pos_other].seq
    /\ rx_delivered = <<[can_id |-> can_gnss_pos, payload |-> Payload(55, RxFamily(can_gnss_pos))]>>
    /\ rx_sessions[can_gnss_pos_other].open
    /\ {0, 1, 2} \subseteq rx_sessions[can_gnss_pos_other].frames_received
    /\ rx_last = can_gnss_pos

\* C12: within one send_fast_packet call no two emitted frames carry the same
\* header byte: the k-th frame emitted (k = 1, 2, ...) has frame index k - 1 in
\* bits 5..7 of its first byte, for every payload length, whether the call
\* returns or raises.
C12_FrameIndexNeverReused ==
    fp_pc \in {"returned", "raised"} =>
        \A k \in 1..Len(fp_bus) :
            /\ Shr(fp_bus[k].data[1], 5) = k - 1
            /\ \A j \in 1..(k - 1) : fp_bus[j].data[1] # fp_bus[k].data[1]

\* a 56-byte payload, which needs a frame of index 8: frames 0..7 are out and
\* the call has raised
C12_Witness ==
    /\ fp_pc = "raised"
    /\ fp_err = "ValueError"
    /\ fp_args.len = 56
    /\ Len(fp_bus) = 8
    /\ Shr(fp_bus[8].data[1], 5) = 7

\* the GNSS Position frames of the latest pass
GnssFrames == SelectSeq(n2k_bus, LAMBDA m : m.arbitration_id = can_gnss_pos)

\* C13: the Fast Packet sequence counter of the NMEA 2000 bridge is a 5-bit
\* rolling counter: fast_packet_seq is always in 0..31 and equals the number of
\* transmissions completed so far modulo 32, so the k-th transmission that
\* completes used (k - 1) mod 32; a transmission that raises leaves the counter
\* unchanged; every frame of a transmission carries the counter it was called
\* with in bits 0..4 of its first byte.
C13_RollingSequenceCounter ==
    n2k_pc # "idle" =>
        /\ fast_packet_seq \in 0..31
        /\ fast_packet_seq = n2k_fp_ok % 32
        /\ n2k_last.outcome = "sent" =>
              /\ n2k_last.fp_err = "none" =>
                    /\ n2k_last.seq = (n2k_fp_ok - 1) % 32
                    /\ fast_packet_seq = (n2k_last.seq + 1) % 32
              /\ n2k_last.fp_err # "none" => fast_packet_seq = n2k_last.seq
              /\ \A k \in 1..Len(GnssFrames) :
                    BitAnd(GnssFrames[k].data[1], 31) = n2k_last.seq

\* the 32nd transmission has completed with counter 31 in its seven frames and
\* the counter is back at 0
C13_Witness ==
    /\ n2k_pc = "running"
    /\ n2k_last.outcome = "sent"
    /\ n2k_last.fp_err = "none"
    /\ n2k_last.seq = 31
    /\ n2k_fp_ok = 32
    /\ fast_packet_seq = 0
    /\ Len(GnssFrames) = 7
    /\ BitAnd(GnssFrames[7].data[1], 31) = 31

\* C14: per valid fix, when no send fails, the NMEA 2000 bridge hands the bus
\* REPEAT_COUNT (10) rounds of one Position Rapid frame followed by one COG/SOG
\* frame and, only after the last round, the frames of exactly one GNSS
\* Position Fast Packet (indices 0, 1, ... in order, carrying the GNSS payload
\* of the fix); the J1939 bridge hands the bus REPEAT_COUNT (5) rounds of one
\* Vehicle Position frame followed by one Vehicle Direction/Speed frame.  All
\* frames of a pass carry the payloads of that pass's fix.
C14_FixedFrameOrder ==
    /\ (n2k_pc # "idle" /\ n2k_last.outcome = "sent"
          /\ n2k_last.loop_fail = NoFail /\ n2k_last.fp_fail = NoFail) =>
          /\ \A r \in 1..10 :
                /\ n2k_bus[2 * r - 1] = Message(can_pos_rapid, n2k_last.payloads.pos)
                /\ n2k_bus[2 * r] = Message(can_cog_sog, n2k_last.payloads.cog_sog)
          /\ Len(n2k_bus) > 20
          /\ \A k \in 21..Len(n2k_bus) :
                /\ n2k_bus[k].arbitration_id = can_gnss_pos
                /\ Shr(n2k_bus[k].data[1], 5) = k - 21
          /\ Reassemble(SubSeq(n2k_bus, 21, Len(n2k_bus))) = n2k_last.payloads.gnss
    /\ (j1939_pc # "idle" /\ j1939_last.outcome = "sent"
          /\ j1939_last.loop_fail = NoFail) =>
          /\ Len(j1939_bus) = 10
          /\ \A r \in 1..5 :
                /\ j1939_bus[2 * r - 1] = Message(can_position, j1939_last.payloads.pos)
                /\ j1939_bus[2 * r] = Message(can_direction, j1939_last.payloads.dir)

\* a fix of the NMEA 2000 bridge for which every send succeeded: 20 single
\* frames, then the 7 frames of the GNSS Position Fast Packet
C14_Witness ==
    /\ n2k_pc = "running"
    /\ n2k_last.outcome = "sent"
    /\ n2k_last.loop_fail = NoFail
    /\ n2k_last.fp_fail = NoFail
    /\ Len(n2k_bus) = 27
    /\ n2k_bus[20].arbitration_id = can_cog_sog
    /\ n2k_bus[21].arbitration_id = can_gnss_pos

\* the lines the bridges reject: a timeout, only a line ending, no leading "$",
\* not RMC, status V, empty latitude, a latitude float() rejects, an infinite
\* latitude, too few fields
C15_RejectedLines ==
    {<<>>, LineBlank, LineNoDollar, LineGga, LineRmcVoid, LineRmcNoLat,
     LineRmcBadLat, LineRmcInfLat, LineRmcShort}

\* the text main works on: line_bytes.decode(errors="ignore").strip()
C15_Text(line_bytes) == Strip(Decode(line_bytes))

\* C15 as stated: a rejected line ends its pass with no frame sent and with sid,
\* fast_packet_seq and msg_count as they were before the pass, and parse_gprmc
\* gives the None tuple for the line.
C15_AsStated ==
    (n2k_last.outcome \notin {"start", "read error"}
     /\ n2k_last.line \in C15_RejectedLines)
       => /\ n2k_bus = <<>>
          /\ sid = n2k_last.sid
          /\ fast_packet_seq = n2k_last.seq
          /\ msg_count = n2k_last.count
          /\ parse_gprmc(C15_Text(n2k_last.line)) = NoFix

\* C15: a rejected line ends its pass in a "continue": no frame is sent by
\* either CAN bridge, and sid, fast_packet_seq and msg_count keep the values they
\* had before the pass.  parse_gprmc gives the None tuple for every rejected line
\* that main hands to it (those whose text starts with "$") and for empty text;
\* a line whose only defect is the missing "$" is rejected by main alone:
\* parse_gprmc accepts its text.
C15_RejectedLineNoEffect ==
    /\ \A line_bytes \in C15_RejectedLines :
          \/ C15_Text(line_bytes) = <<>>
          \/ StartsWith(C15_Text(line_bytes), <<"$">>)
          => parse_gprmc(C15_Text(line_bytes)) = NoFix
    /\ parse_gprmc(C15_Text(LineNoDollar)).ok
    /\ (n2k_last.outcome \notin {"start", "read error"}
        /\ n2k_last.line \in C15_RejectedLines)
          => /\ n2k_last.outcome \in {"timeout", "no dollar", "no fix"}
             /\ n2k_bus = <<>>
             /\ sid = n2k_last.sid
             /\ fast_packet_seq = n2k_last.seq
             /\ msg_count = n2k_last.count
    /\ (j1939_last.outcome \notin {"start", "read error"}
        /\ j1939_last.line \in C15_RejectedLines)
          => /\ j1939_last.outcome \in {"timeout", "no dollar", "no fix"}
             /\ j1939_bus = <<>>

\* after a fix was sent, the line with status V was read and skipped
C15_Witness ==
    /\ n2k_last.line = LineRmcVoid
    /\ n2k_last.outcome = "no fix"
    /\ n2k_last.count = 1
    /\ msg_count = 1
    /\ sid = 1
    /\ n2k_bus = <<>>

\* the frames of the repeat loop on the bus of the latest pass
C16_RapidFrames ==
    SelectSeq(n2k_bus, LAMBDA m : m.arbitration_id \in {can_pos_rapid, can_cog_sog})

\* C16: when the send numbered f (from 0) of the repeat loop raises, the bus
\* carries exactly the f Position Rapid and COG/SOG frames sent before it, in
\* their alternating order, and none after it: the failing message is not sent
\* again and the rest of the loop is given up.  The GNSS Fast Packet is still
\* attempted after the loop: all its frames follow when the driver takes them
\* (and fast_packet_seq advances), and else the frames before its own failing
\* send.  sid has advanced in either case.
C16_BreakWithoutRetry ==
    (n2k_last.outcome = "sent" /\ n2k_last.loop_fail # NoFail) =>
       LET f    == n2k_last.loop_fail
           rest == SubSeq(n2k_bus, f + 1, Len(n2k_bus))
       IN  /\ Len(n2k_bus) >= f
           /\ Len(C16_RapidFrames) = f
           /\ \A k \in 1..f :
                 n2k_bus[k] = IF k % 2 = 1
                              THEN Message(can_pos_rapid, n2k_last.payloads.pos)
                              ELSE Message(can_cog_sog, n2k_last.payloads.cog_sog)
           /\ \A k \in 1..Len(rest) : rest[k].arbitration_id = can_gnss_pos
           /\ IF n2k_last.fp_err = "none"
              THEN /\ Reassemble(rest) = n2k_last.payloads.gnss
                   /\ fast_packet_seq = (n2k_last.seq + 1) % 32
              ELSE /\ Len(rest) = n2k_last.fp_fail
                   /\ fast_packet_seq = n2k_last.seq
           /\ sid = (n2k_last.sid + 1) % 253
           /\ msg_count = n2k_last.count + 1

\* the Position Rapid send of the second round raised: two frames of the loop
\* are on the bus, followed by the whole Fast Packet
C16_Witness ==
    /\ n2k_last.outcome = "sent"
    /\ n2k_last.loop_fail = 2
    /\ n2k_last.fp_err = "none"
    /\ Len(C16_RapidFrames) = 2
    /\ Len(n2k_bus) = 9
    /\ n2k_bus[3].arbitration_id = can_gnss_pos
    /\ sid = 1

\* C17: no failure stops a bridge.  A loop leaves "running" only for "exited",
\* the KeyboardInterrupt; a line leaves the port only by a pass that handled
\* that very line; and a line that waits at the port of a running loop, after
\* whatever failures, is eventually taken by a pass unless the loop is
\* interrupted first.
C17_EndsOnlyOnInterrupt ==
    /\ n2k_pc' # n2k_pc => n2k_pc = "running" /\ n2k_pc' = "exited"
    /\ j1939_pc' # j1939_pc => j1939_pc = "running" /\ j1939_pc' = "exited"
    /\ filt_pc' # filt_pc => filt_pc = "running" /\ filt_pc' = "exited"

C17_TakenMeansHandled ==
    /\ (n2k_rx # <<>> /\ n2k_rx' = <<>>) =>
          /\ n2k_last'.line = n2k_rx
          /\ n2k_last'.outcome \in {"no dollar", "no fix", "error", "sent"}
    /\ (j1939_rx # <<>> /\ j1939_rx' = <<>>) =>
          /\ j1939_last'.line = j1939_rx
          /\ j1939_last'.outcome \in {"no dollar", "no fix", "error", "sent"}
    /\ (filt_rx # <<>> /\ filt_rx' = <<>>) => filt_in' = Append(filt_in, filt_rx)

C17_LoopSurvivesFailures ==
    /\ [][C17_EndsOnlyOnInterrupt /\ C17_TakenMeansHandled]_vars
    /\ (n2k_rx # <<>>) ~> (n2k_rx = <<>> \/ n2k_pc = "exited")
    /\ (j1939_rx # <<>>) ~> (j1939_rx = <<>> \/ j1939_pc = "exited")
    /\ (filt_rx # <<>>) ~> (filt_rx = <<>> \/ filt_pc = "exited")

\* an encoder raised in one pass (msg_count went up, sid did not) and the next
\* fix was sent all the same
C17_Witness ==
    /\ n2k_pc = "running"
    /\ n2k_last.outcome = "sent"
    /\ msg_count = 2
    /\ sid = 1
    /\ Len(n2k_bus) = 27

====
